---- MODULE Spec2Model ----
(***************************************************************************)
(* Builtin function library of OpenSCAD (src/src/func.cc).                 *)
(*                                                                         *)
(* A state is the last builtin call the host evaluator made (name,         *)
(* argument list, returned Value, diagnostics printed, whether the call    *)
(* read a std::vector out of range) together with the process-wide state   *)
(* the builtins read or write: the two random generators and the module    *)
(* call stack.                                                             *)
(*                                                                         *)
(* Doubles are modelled exactly: a finite double is h*TRIG_HUGE_VAL + n/d  *)
(* (h, n integers, d > 0, n/d in lowest terms), so that the huge-value     *)
(* threshold of sin/cos is representable in TLC's integers; NaN and the    *)
(* two infinities are separate kinds.  Rounding is not modelled.           *)
(***************************************************************************)
EXTENDS Integers, Sequences, FiniteSets, TLC

VARIABLES fn, args, result, diag, oob,
          deterministic_rng, lessdeterministic_rng, module_stack

vars == <<fn, args, result, diag, oob,
          deterministic_rng, lessdeterministic_rng, module_stack>>

(***************************************************************************)
(* Bounds of the model.                                                    *)
(***************************************************************************)
MaxArgs == 4
MaxVecLen == 3
MaxRows == 3
MaxNeedle == 2
MaxHaystack == 2
MaxTurns == 2
MaxProbe == 3
MaxStack == 2
RngModulus == 8

(***************************************************************************)
(* Value model: Undefined, Number, String (sequence of code points),       *)
(* Vector (sequence of Values).                                            *)
(***************************************************************************)
Undef == [t |-> "undef"]
Fin(h, n, d) == [t |-> "num", k |-> "fin", h |-> h, n |-> n, d |-> d]
Num(n) == Fin(0, n, 1)
NaN == [t |-> "num", k |-> "nan", h |-> 0, n |-> 0, d |-> 1]
Inf(s) == [t |-> "num", k |-> "inf", h |-> 0, n |-> s, d |-> 1]
Str(s) == [t |-> "str", s |-> s]
Vec(v) == [t |-> "vec", v |-> v]

IsNum(v) == v.t = "num"
IsStr(v) == v.t = "str"
IsVec(v) == v.t = "vec"
IsFinite(v) == v.t = "num" /\ v.k = "fin"

\* Sequences over S of length lo..hi.
SeqsOf(S, lo, hi) == UNION {[1..m -> S] : m \in lo..hi}

(***************************************************************************)
(* IEEE comparisons of doubles: every comparison with NaN is false.        *)
(***************************************************************************)
DLess(x, y) ==
    IF x.k = "nan" \/ y.k = "nan" THEN FALSE
    ELSE IF x.k = "inf" THEN x.n = -1 /\ ~(y.k = "inf" /\ y.n = -1)
    ELSE IF y.k = "inf" THEN y.n = 1
    ELSE x.h < y.h \/ (x.h = y.h /\ x.n * y.d < y.n * x.d)

DEq(x, y) ==
    IF x.k = "nan" \/ y.k = "nan" THEN FALSE
    ELSE IF x.k = "inf" \/ y.k = "inf" THEN x.k = y.k /\ x.n = y.n
    ELSE x.h = y.h /\ x.n * y.d = y.n * x.d

DLe(x, y) == DLess(x, y) \/ DEq(x, y)
DGt(x, y) == DLess(y, x)
DGe(x, y) == DLe(y, x)

(***************************************************************************)
(* Exact arithmetic of doubles.  Products and quotients are taken of       *)
(* numbers below the huge-value unit (h = 0).                              *)
(***************************************************************************)
RECURSIVE Gcd(_, _)
Gcd(a, b) == IF b = 0 THEN a ELSE Gcd(b, a % b)

Abs(n) == IF n < 0 THEN -n ELSE n
Sign(n) == IF n < 0 THEN -1 ELSE 1

\* The finite double h*TRIG_HUGE_VAL + n/d in lowest terms, d # 0.
Norm(h, n, d) ==
    LET g == Gcd(Abs(n), Abs(d)) IN
    Fin(h, (Sign(d) * n) \div g, Abs(d) \div g)

\* The result of a <math.h> function that has no exact value here, kept as
\* the term s*f(x): f is the function, x its argument, s the sign.
Libm(f, x) == [t |-> "num", k |-> "libm", f |-> f, x |-> x, s |-> 1]

DNeg(x) ==
    IF x.k = "nan" THEN NaN
    ELSE IF x.k = "inf" THEN Inf(-x.n)
    ELSE IF x.k = "libm" THEN [x EXCEPT !.s = -x.s]
    ELSE Fin(-x.h, -x.n, x.d)

DAdd(x, y) ==
    IF x.k = "nan" \/ y.k = "nan" THEN NaN
    ELSE IF x.k = "inf" /\ y.k = "inf" THEN (IF x.n = y.n THEN x ELSE NaN)
    ELSE IF x.k = "inf" THEN x
    ELSE IF y.k = "inf" THEN y
    ELSE Norm(x.h + y.h, x.n * y.d + y.n * x.d, x.d * y.d)

DSub(x, y) == DAdd(x, DNeg(y))

DMul(x, y) ==
    IF x.k = "nan" \/ y.k = "nan" THEN NaN
    ELSE IF x.k = "inf" \/ y.k = "inf"
    THEN (IF x.n = 0 \/ y.n = 0 THEN NaN ELSE Inf(Sign(x.n) * Sign(y.n)))
    ELSE Norm(0, x.n * y.n, x.d * y.d)

DDiv(x, y) ==
    IF x.k = "nan" \/ y.k = "nan" THEN NaN
    ELSE IF x.k = "inf" THEN (IF y.k = "inf" THEN NaN ELSE Inf(x.n * Sign(y.n)))
    ELSE IF y.k = "inf" THEN Num(0)
    ELSE IF y.n = 0 THEN (IF x.n = 0 THEN NaN ELSE Inf(Sign(x.n)))
    ELSE Norm(0, x.n * y.d, x.d * y.n)

(***************************************************************************)
(* Value accessors (value.cc, outside src/).                               *)
(***************************************************************************)
\* Value::toVector(): the elements of a Vector, the empty vector otherwise.
toVector(v) == IF v.t = "vec" THEN v.v ELSE <<>>

\* Value::toDouble(): the double of a Number, 0 otherwise.
toDouble(v) == IF v.t = "num" THEN v ELSE Num(0)

\* Value::getDouble(): succeeds on a Number.
getDouble(v) == v.t = "num"

\* Value::getVec2(): succeeds on a Vector of exactly two Numbers.
getVec2(v) == v.t = "vec" /\ Len(v.v) = 2 /\ v.v[1].t = "num" /\ v.v[2].t = "num"

\* Value::getVec3(): succeeds on a Vector of exactly three Numbers.
getVec3(v) == v.t = "vec" /\ Len(v.v) = 3 /\ \A i \in 1..3 : v.v[i].t = "num"

RECURSIVE SeqLess(_, _, _)
\* Lexicographic order of two sequences of code points, from position i.
SeqLess(s, u, i) ==
    IF i > Len(u) THEN FALSE
    ELSE IF i > Len(s) THEN TRUE
    ELSE IF s[i] < u[i] THEN TRUE
    ELSE IF u[i] < s[i] THEN FALSE
    ELSE SeqLess(s, u, i + 1)

\* Value::operator<: defined between values of the same variant; values of
\* different variants (and Undefined) are incomparable.
ValueLess(a, b) ==
    IF a.t = "num" /\ b.t = "num" THEN DLess(a, b)
    ELSE IF a.t = "str" /\ b.t = "str" THEN SeqLess(a.s, b.s, 1)
    ELSE FALSE

ValueGreater(a, b) == ValueLess(b, a)

\* Value::operator==: same variant and equal content; doubles compare by IEEE.
ValueEq(a, b) ==
    IF a.t = "num" /\ b.t = "num" THEN DEq(a, b)
    ELSE a = b

(***************************************************************************)
(* What a builtin call does: the Value it returns, the diagnostics it      *)
(* prints (PRINT/PRINTB), and whether it indexed a std::vector at or past  *)
(* its size (undefined behaviour).                                         *)
(***************************************************************************)
Ret(v) == [ret |-> v, msgs |-> <<>>, fail |-> FALSE]
RetMsg(v, m) == [ret |-> v, msgs |-> m, fail |-> FALSE]
OutOfRange == [ret |-> Undef, msgs |-> <<>>, fail |-> TRUE]

(***************************************************************************)
(* rands.  A generator (boost::mt19937) is modelled by a state in          *)
(* 0..RngModulus-1: seeding sets it from the seed, a draw advances it and  *)
(* yields the new state as the fraction state/RngModulus of [0,1).         *)
(***************************************************************************)
\* A conversion double -> int that rounds up instead of truncating.
ToIntCeiling(x) == -((-x.n) \div x.d)

\* The conversion double -> int of a finite double (truncation toward zero).
ToInt(x) == IF x.n < 0 THEN -((-x.n) \div x.d) ELSE x.n \div x.d

\* The conversion double -> unsigned int of a finite, non-negative double
\* (truncation); the arguments drawn for it are of that kind.
ToUnsigned(x) == x.n \div x.d

\* A seeding that leaves the generator as it was.
SeedIgnored(rng, seed) == rng

\* rng.seed(seed): the state after seeding does not depend on the one before.
SeedRng(rng, seed) == seed % RngModulus

\* One step of the generator.
StepRng(rng) == (5 * rng + 3) % RngModulus

\* boost::uniform_real<>(min, max)(rng), given the state after the step.
Distribute(min, max, rng) ==
    DAdd(min, DMul(DSub(max, min), Norm(0, rng, RngModulus)))

RECURSIVE DrawLoopRewinds(_, _, _, _, _)
\* As DrawLoop, but the generator is left where it was before the draws.
DrawLoopRewinds(min, max, numresults, rng, vec) ==
    IF numresults = 0 THEN [vec |-> vec, rng |-> rng]
    ELSE [vec |-> DrawLoopRewinds(min, max, numresults - 1, StepRng(rng),
                      Append(vec, Distribute(min, max, StepRng(rng)))).vec,
          rng |-> rng]

RECURSIVE DrawLoop(_, _, _, _, _)
\* for (i = 0; i < numresults; i++) vec.push_back(distributor(rng));
\* yields the vector and the state the generator is left in.
DrawLoop(min, max, numresults, rng, vec) ==
    IF numresults = 0 THEN [vec |-> vec, rng |-> rng]
    ELSE DrawLoop(min, max, numresults - 1, StepRng(rng),
                  Append(vec, Distribute(min, max, StepRng(rng))))

\* As RandsQuit, but the deterministic generator is advanced by one step.
RandsQuitAdvanced(det, less) ==
    [ret |-> Undef, msgs |-> <<>>, fail |-> FALSE, det |-> StepRng(det), less |-> less]

\* The call left at `quit': no generator touched.
RandsQuit(det, less) ==
    [ret |-> Undef, msgs |-> <<>>, fail |-> FALSE, det |-> det, less |-> less]

builtin_rands(a, det, less) ==
    IF Len(a) = 3 \/ Len(a) = 4
    THEN IF a[1].t # "num" \/ a[2].t # "num" \/ a[3].t # "num" THEN RandsQuit(det, less)
         ELSE IF Len(a) > 3 /\ a[4].t # "num" THEN RandsQuit(det, less)
         ELSE LET swap == DLess(toDouble(a[2]), toDouble(a[1]))
                  min == IF swap THEN toDouble(a[2]) ELSE toDouble(a[1])
                  max == IF swap THEN toDouble(a[1]) ELSE toDouble(a[2])
                  count == ToInt(toDouble(a[3]))
                  numresults == IF count > 0 THEN count ELSE 0
                  deterministic == Len(a) > 3
                  seeded == IF deterministic
                            THEN SeedRng(det, ToUnsigned(toDouble(a[4]))) ELSE det
              IN  IF DEq(min, max)
                  THEN [ret |-> Vec([i \in 1..numresults |-> min]), msgs |-> <<>>,
                        fail |-> FALSE, det |-> seeded, less |-> less]
                  ELSE IF deterministic
                  THEN LET d == DrawLoop(min, max, numresults, seeded, <<>>) IN
                       [ret |-> Vec(d.vec), msgs |-> <<>>, fail |-> FALSE,
                        det |-> d.rng, less |-> less]
                  ELSE LET d == DrawLoop(min, max, numresults, less, <<>>) IN
                       [ret |-> Vec(d.vec), msgs |-> <<>>, fail |-> FALSE,
                        det |-> seeded, less |-> d.rng]
    ELSE RandsQuit(det, less)

(***************************************************************************)
(* min / max                                                               *)
(***************************************************************************)
RECURSIVE MinVectorLoopSkipsLast(_, _, _)
\* Off by one: the loop stops one element early.
MinVectorLoopSkipsLast(v, i, min) ==
    IF i >= Len(v) THEN min
    ELSE MinVectorLoopSkipsLast(v, i + 1, IF ValueLess(v[i], min) THEN v[i] ELSE min)

RECURSIVE MinVectorLoop(_, _, _)
\* for (i = 1; i < v0.toVector().size(); i++) if (v[i] < min) min = v[i];
MinVectorLoop(v, i, min) ==
    IF i > Len(v) THEN min
    ELSE MinVectorLoop(v, i + 1, IF ValueLess(v[i], min) THEN v[i] ELSE min)

RECURSIVE MinArgsLoop(_, _, _)
\* for (i = 1; i < n; ++i) { if (v.type() != NUMBER) goto quit; if (x < val) val = x; }
MinArgsLoop(a, i, val) ==
    IF i > Len(a) THEN Ret(val)
    ELSE IF a[i].t # "num" THEN Ret(Undef)
    ELSE MinArgsLoop(a, i + 1, IF DLess(a[i], val) THEN a[i] ELSE val)

builtin_min(a) ==
    IF Len(a) >= 1
    THEN IF Len(a) = 1 /\ a[1].t = "vec" /\ toVector(a[1]) # <<>>
         THEN Ret(MinVectorLoop(toVector(a[1]), 2, toVector(a[1])[1]))
         ELSE IF a[1].t = "num"
         THEN MinArgsLoop(a, 2, toDouble(a[1]))
         ELSE Ret(Undef)
    ELSE Ret(Undef)

RECURSIVE MaxVectorLoop(_, _, _)
\* for (i = 1; i < v0.toVector().size(); i++) if (v[i] > max) max = v[i];
MaxVectorLoop(v, i, max) ==
    IF i > Len(v) THEN max
    ELSE MaxVectorLoop(v, i + 1, IF ValueGreater(v[i], max) THEN v[i] ELSE max)

RECURSIVE MaxArgsLoop(_, _, _)
\* for (i = 1; i < n; ++i) { if (v.type() != NUMBER) goto quit; if (x > val) val = x; }
MaxArgsLoop(a, i, val) ==
    IF i > Len(a) THEN Ret(val)
    ELSE IF a[i].t # "num" THEN Ret(Undef)
    ELSE MaxArgsLoop(a, i + 1, IF DGt(a[i], val) THEN a[i] ELSE val)

builtin_max(a) ==
    IF Len(a) >= 1
    THEN IF Len(a) = 1 /\ a[1].t = "vec" /\ toVector(a[1]) # <<>>
         THEN Ret(MaxVectorLoop(toVector(a[1]), 2, toVector(a[1])[1]))
         ELSE IF a[1].t = "num"
         THEN MaxArgsLoop(a, 2, toDouble(a[1]))
         ELSE Ret(Undef)
    ELSE Ret(Undef)

(***************************************************************************)
(* lookup                                                                  *)
(***************************************************************************)
\* Drops the second disjunct: a bracket seeded on the wrong side of p stays.
UpdatesLowNoReseed(this_p, p, low_p) ==
    DLe(this_p, p) /\ DGt(this_p, low_p)

\* this_p <= p && (this_p > low_p || low_p > p)
UpdatesLow(this_p, p, low_p) ==
    DLe(this_p, p) /\ (DGt(this_p, low_p) \/ DGt(low_p, p))

\* this_p >= p && (this_p < high_p || high_p < p)
UpdatesHigh(this_p, p, high_p) ==
    DGe(this_p, p) /\ (DLess(this_p, high_p) \/ DLess(high_p, p))

\* One iteration of the scan: a row that is no pair of Numbers is skipped.
LookupRow(p, row, b) ==
    IF getVec2(row)
    THEN LET this_p == row.v[1]
             this_v == row.v[2]
             lo == UpdatesLow(this_p, p, b.low_p)
             hi == UpdatesHigh(this_p, p, b.high_p)
         IN  [low_p  |-> IF lo THEN this_p ELSE b.low_p,
              low_v  |-> IF lo THEN this_v ELSE b.low_v,
              high_p |-> IF hi THEN this_p ELSE b.high_p,
              high_v |-> IF hi THEN this_v ELSE b.high_v]
    ELSE b

RECURSIVE LookupScan(_, _, _, _)
\* for (i = 1; i < table.size(); i++) ...
LookupScan(p, table, i, b) ==
    IF i > Len(table) THEN b
    ELSE LookupScan(p, table, i + 1, LookupRow(p, table[i], b))

\* The three returns after the scan.
LookupResult(p, b) ==
    IF DLe(p, b.low_p) THEN b.high_v
    ELSE IF DGe(p, b.high_p) THEN b.low_v
    ELSE LET f == DDiv(DSub(p, b.low_p), DSub(b.high_p, b.low_p))
         IN  DAdd(DMul(b.high_v, f), DMul(b.low_v, DSub(Num(1), f)))

\* A later row that is no pair of Numbers makes the call return Undefined.
builtin_lookup_Strict(a) ==
    IF Len(a) < 2 THEN Ret(Undef)
    ELSE IF ~getDouble(a[1]) THEN Ret(Undef)
    ELSE IF Len(toVector(a[2])) = 0 THEN OutOfRange
    ELSE LET table == toVector(a[2]) IN
         IF \E i \in 1..Len(table) : ~getVec2(table[i]) THEN Ret(Undef)
         ELSE Ret(LookupResult(a[1], LookupScan(a[1], table, 2,
                 [low_p |-> table[1].v[1], low_v |-> table[1].v[2],
                  high_p |-> table[1].v[1], high_v |-> table[1].v[2]])))

builtin_lookup(a) ==
    IF Len(a) < 2 THEN Ret(Undef)
    ELSE IF ~getDouble(a[1]) THEN Ret(Undef)
    ELSE IF Len(toVector(a[2])) = 0 THEN OutOfRange   \* toVector()[0]
    ELSE LET table == toVector(a[2]) IN
         IF Len(toVector(table[1])) < 2 THEN Ret(Undef)
         ELSE IF ~getVec2(table[1]) THEN Ret(Undef)
         ELSE Ret(LookupResult(a[1], LookupScan(a[1], table, 2,
                 [low_p |-> table[1].v[1], low_v |-> table[1].v[2],
                  high_p |-> table[1].v[1], high_v |-> table[1].v[2]])))

(***************************************************************************)
(* sin / cos                                                               *)
(***************************************************************************)
\* #define TRIG_HUGE_VAL ((1L<<26)*360.0*(1L<<26)): the unit of the h part.
TRIG_HUGE_VAL == Fin(1, 0, 1)

\* floor() of a finite double below the huge-value unit.
Floor(x) == Num(x.n \div x.d)

\* Rounds the quotient toward zero instead of down.
Reduce360Truncating(x) ==
    LET r == Fin(0, x.n, x.d)
        q == DDiv(r, Num(360))
        revolutions == IF q.n < 0 THEN DNeg(Floor(DNeg(q))) ELSE Floor(q)
    IN  DSub(r, DMul(Num(360), revolutions))

\* revolutions = floor(x/360.0); x -= 360.0*revolutions.  TRIG_HUGE_VAL is a
\* whole number of revolutions (2^52 of them), so the h part of x goes with
\* them and the rest is reduced.
Reduce360(x) ==
    LET r == Fin(0, x.n, x.d)
        revolutions == Floor(DDiv(r, Num(360)))
    IN  DSub(r, DMul(Num(360), revolutions))

\* The domain check: x as it is in [0,360), reduced when |x| is below
\* TRIG_HUGE_VAL, and no angle at all ("lost") otherwise.
TrigDomain(x) ==
    IF DLess(x, Num(360)) /\ DGe(x, Num(0)) THEN x
    ELSE IF DLess(x, TRIG_HUGE_VAL) /\ DGt(x, DNeg(TRIG_HUGE_VAL)) THEN Reduce360(x)
    ELSE NaN

\* sin of an angle in [0,360]: the octant symmetries and the exact values.
SinOctant(x0) ==
    LET oppose == DGe(x0, Num(180))
        x1 == IF oppose THEN DSub(x0, Num(180)) ELSE x0
        x2 == IF DGt(x1, Num(90)) THEN DSub(Num(180), x1) ELSE x1
        x3 == IF DLess(x2, Num(45))
              THEN (IF DEq(x2, Num(30)) THEN Fin(0, 1, 2) ELSE Libm("sin", x2))
              ELSE IF DEq(x2, Num(45)) THEN Libm("M_SQRT1_2", Num(0))
              ELSE Libm("cos", DSub(Num(90), x2))
    IN  IF oppose THEN DNeg(x3) ELSE x3

builtin_sin(a) ==
    IF Len(a) = 1 /\ a[1].t = "num"
    THEN LET x == TrigDomain(toDouble(a[1])) IN
         IF x.k = "nan" THEN Ret(NaN) ELSE Ret(SinOctant(x))
    ELSE Ret(Undef)

\* cos of an angle in [0,360].
CosOctant(x0) ==
    LET opp1 == DGe(x0, Num(180))
        x1 == IF opp1 THEN DSub(x0, Num(180)) ELSE x0
        over == DGt(x1, Num(90))
        x2 == IF over THEN DSub(Num(180), x1) ELSE x1
        oppose == IF over THEN ~opp1 ELSE opp1
        x3 == IF DGt(x2, Num(45))
              THEN (IF DEq(x2, Num(60)) THEN Fin(0, 1, 2)
                    ELSE Libm("sin", DSub(Num(90), x2)))
              ELSE IF DEq(x2, Num(45)) THEN Libm("M_SQRT1_2", Num(0))
              ELSE Libm("cos", x2)
    IN  IF oppose THEN DNeg(x3) ELSE x3

builtin_cos(a) ==
    IF Len(a) = 1 /\ a[1].t = "num"
    THEN LET x == TrigDomain(toDouble(a[1])) IN
         IF x.k = "nan" THEN Ret(NaN) ELSE Ret(CosOctant(x))
    ELSE Ret(Undef)

(***************************************************************************)
(* search                                                                  *)
(***************************************************************************)
RECURSIVE LeadingDigit(_)
LeadingDigit(n) == IF n < 10 THEN n ELSE LeadingDigit(n \div 10)

\* The first code point of Value::toString() (value.cc, outside src/): of a
\* String its first code point (0, the terminator, when empty), of a Number
\* the first character of its decimal form, of a Vector '[', of Undefined 'u'.
FirstGlyph(v) ==
    IF v.t = "str" THEN (IF v.s = <<>> THEN 0 ELSE v.s[1])
    ELSE IF v.t = "num"
    THEN (IF v.k = "nan" THEN 110
          ELSE IF v.k = "inf" THEN (IF v.n < 0 THEN 45 ELSE 105)
          ELSE IF v.n < 0 THEN 45
          ELSE 48 + LeadingDigit(v.n \div v.d))
    ELSE IF v.t = "vec" THEN 91
    ELSE 117

\* The code point read through ptr_st, which points into the temporary
\* std::string of toString() after its destruction: the string's first code
\* point when the freed bytes are intact (mem = -1), else whatever is there.
DanglingRead(v, mem) == IF mem = -1 THEN FirstGlyph(v) ELSE mem

RECURSIVE Collect(_, _, _, _)
\* The inner loop over the haystack: st[j] says whether position j matches
\* ("hit"), does not ("miss") or cannot be read ("oob").  The indices (from 0)
\* of the matches are collected until num_returns_per_match of them are found
\* (all of them when it is 0).
Collect(st, j, rpm, acc) ==
    IF j > Len(st) THEN [idx |-> acc, fail |-> FALSE]
    ELSE IF st[j] = "oob" THEN [idx |-> acc, fail |-> TRUE]
    ELSE IF st[j] = "hit"
    THEN IF rpm # 0 /\ Len(acc) + 1 >= rpm
         THEN [idx |-> Append(acc, Num(j - 1)), fail |-> FALSE]
         ELSE Collect(st, j + 1, rpm, Append(acc, Num(j - 1)))
    ELSE Collect(st, j + 1, rpm, acc)

\* g_utf8_get_char(ptr_ft) == g_utf8_get_char(ptr_st), String haystack.
StringHits(c, table) ==
    [j \in 1..Len(table) |-> IF c = table[j] THEN "hit" ELSE "miss"]

\* The same against table[j].toVector()[index_col_num].toString().
RowHits(c, table, col, mem) ==
    [j \in 1..Len(table) |->
        IF col >= Len(toVector(table[j])) THEN "oob"
        ELSE IF c = DanglingRead(toVector(table[j])[col + 1], mem) THEN "hit"
        ELSE "miss"]

\* As StringEntry, but the result is flat whatever num_returns_per_match is.
StringEntryAlwaysFlat(m, rpm) == m.idx

\* What one needle code point adds to returnvec in the two String overloads.
StringEntry(m, rpm) ==
    IF rpm = 1 THEN m.idx ELSE <<Vec(m.idx)>>

NotFound(m) == IF m.idx = <<>> THEN <<"search term not found">> ELSE <<>>

RECURSIVE search_string(_, _, _, _, _)
\* static search(const std::string &find, const std::string &table, ...):
\* the outer loop over the code points of find, from code point i on.
search_string(find, table, rpm, i, acc) ==
    IF i > Len(find) THEN acc
    ELSE LET m == Collect(StringHits(find[i], table), 1, rpm, <<>>) IN
         search_string(find, table, rpm, i + 1,
            [vec |-> acc.vec \o StringEntry(m, rpm),
             msgs |-> acc.msgs \o NotFound(m),
             fail |-> FALSE])

RECURSIVE search_vector(_, _, _, _, _, _, _)
\* static search(const std::string &find, const Value::VectorType &table, ...)
search_vector(find, table, rpm, col, mem, i, acc) ==
    IF i > Len(find) THEN acc
    ELSE LET m == Collect(RowHits(find[i], table, col, mem), 1, rpm, <<>>) IN
         IF m.fail THEN [vec |-> acc.vec, msgs |-> acc.msgs, fail |-> TRUE]
         ELSE search_vector(find, table, rpm, col, mem, i + 1,
                [vec |-> acc.vec \o StringEntry(m, rpm),
                 msgs |-> acc.msgs \o NotFound(m),
                 fail |-> FALSE])

\* index_col_num == 0 && find == elem ||
\* index_col_num < elem.toVector().size() && find == elem.toVector()[index_col_num]
ValueHits(find, table, col) ==
    [j \in 1..Len(table) |->
        IF \/ col = 0 /\ ValueEq(find, table[j])
           \/ col < Len(toVector(table[j])) /\ ValueEq(find, toVector(table[j])[col + 1])
        THEN "hit" ELSE "miss"]

\* What one element of a Vector needle adds to returnvec.
VectorEntry(m, rpm) ==
    IF rpm = 1 THEN (IF m.idx = <<>> THEN <<Vec(<<>>)>> ELSE m.idx)
    ELSE <<Vec(m.idx)>>

\* The diagnostic for an unmatched element of a Vector needle.
VectorNotFound(e, m, rpm) ==
    IF rpm = 1 /\ m.idx = <<>> /\ (e.t = "num" \/ e.t = "str")
    THEN <<"search term not found">> ELSE <<>>

RECURSIVE search_needles(_, _, _, _, _, _)
\* The Vector-needle branch of builtin_search: the loop over findThis.
search_needles(find, table, rpm, col, i, acc) ==
    IF i > Len(find) THEN acc
    ELSE LET m == Collect(ValueHits(find[i], table, col), 1, rpm, <<>>) IN
         search_needles(find, table, rpm, col, i + 1,
            [vec |-> acc.vec \o VectorEntry(m, rpm),
             msgs |-> acc.msgs \o VectorNotFound(find[i], m, rpm),
             fail |-> FALSE])

NoMatches == [vec |-> <<>>, msgs |-> <<>>, fail |-> FALSE]

\* As SearchNonePerformed, but without the diagnostic.
SearchNonePerformedSilent == Ret(Undef)

\* A needle that is neither Number, String nor Vector.
SearchNonePerformed == RetMsg(Undef, <<"search: none performed">>)

builtin_search(a, mem) ==
    IF Len(a) < 2 THEN Ret(Undef)
    ELSE LET findThis == a[1]
             searchTable == a[2]
             rpm == IF Len(a) > 2 THEN ToUnsigned(toDouble(a[3])) ELSE 1
             col == IF Len(a) > 3 THEN ToUnsigned(toDouble(a[4])) ELSE 0
             out == IF findThis.t = "num"
                    THEN [vec |-> Collect(ValueHits(findThis, toVector(searchTable), col),
                                          1, rpm, <<>>).idx,
                          msgs |-> <<>>, fail |-> FALSE]
                    ELSE IF findThis.t = "str"
                    THEN (IF searchTable.t = "str"
                          THEN search_string(findThis.s, searchTable.s, rpm, 1, NoMatches)
                          ELSE search_vector(findThis.s, toVector(searchTable), rpm, col,
                                             mem, 1, NoMatches))
                    ELSE search_needles(toVector(findThis), toVector(searchTable), rpm,
                                        col, 1, NoMatches)
         IN  IF findThis.t \notin {"num", "str", "vec"} THEN SearchNonePerformed
             ELSE IF out.fail THEN OutOfRange
             ELSE RetMsg(Vec(out.vec), out.msgs)

(***************************************************************************)
(* The scalar library.  Functions of <math.h> that have no exact value on  *)
(* the rationals are kept as Libm terms.                                   *)
(***************************************************************************)
deg2rad(x) == Libm("deg2rad", x)
rad2deg(x) == Libm("rad2deg", x)

\* fabs()
Fabs(x) ==
    IF x.k = "nan" THEN NaN
    ELSE IF x.k = "inf" THEN Inf(1)
    ELSE IF DLess(x, Num(0)) THEN DNeg(x) ELSE x

\* floor(), ceil(), round() (halves away from zero) of <math.h>.
MathFloor(x) == IF x.k # "fin" THEN x ELSE Fin(x.h, x.n \div x.d, 1)
MathCeil(x) == IF x.k # "fin" THEN x ELSE DNeg(MathFloor(DNeg(x)))
MathRound(x) ==
    IF x.k # "fin" THEN x
    ELSE IF DLess(x, Num(0)) THEN DNeg(MathFloor(DAdd(DNeg(x), Fin(0, 1, 2))))
    ELSE MathFloor(DAdd(x, Fin(0, 1, 2)))

\* As builtin_abs, but without the check of the argument's type.
builtin_abs_Ungated(a) ==
    IF Len(a) = 1 THEN Ret(Fabs(toDouble(a[1]))) ELSE Ret(Undef)

builtin_abs(a) ==
    IF Len(a) = 1 /\ a[1].t = "num" THEN Ret(Fabs(toDouble(a[1]))) ELSE Ret(Undef)

builtin_sign(a) ==
    IF Len(a) = 1 /\ a[1].t = "num"
    THEN LET x == toDouble(a[1]) IN
         Ret(IF DLess(x, Num(0)) THEN Num(-1)
             ELSE IF DGt(x, Num(0)) THEN Num(1) ELSE Num(0))
    ELSE Ret(Undef)

builtin_asin(a) ==
    IF Len(a) = 1 /\ a[1].t = "num"
    THEN Ret(rad2deg(Libm("asin", toDouble(a[1])))) ELSE Ret(Undef)

builtin_acos(a) ==
    IF Len(a) = 1 /\ a[1].t = "num"
    THEN Ret(rad2deg(Libm("acos", toDouble(a[1])))) ELSE Ret(Undef)

builtin_tan(a) ==
    IF Len(a) = 1 /\ a[1].t = "num"
    THEN Ret(Libm("tan", deg2rad(toDouble(a[1])))) ELSE Ret(Undef)

builtin_atan(a) ==
    IF Len(a) = 1 /\ a[1].t = "num"
    THEN Ret(rad2deg(Libm("atan", toDouble(a[1])))) ELSE Ret(Undef)

builtin_atan2(a) ==
    IF Len(a) = 2 /\ a[1].t = "num" /\ a[2].t = "num"
    THEN Ret(rad2deg(Libm("atan2", <<toDouble(a[1]), toDouble(a[2])>>)))
    ELSE Ret(Undef)

builtin_pow(a) ==
    IF Len(a) = 2 /\ a[1].t = "num" /\ a[2].t = "num"
    THEN Ret(Libm("pow", <<toDouble(a[1]), toDouble(a[2])>>))
    ELSE Ret(Undef)

builtin_round(a) ==
    IF Len(a) = 1 /\ a[1].t = "num" THEN Ret(MathRound(toDouble(a[1]))) ELSE Ret(Undef)

builtin_ceil(a) ==
    IF Len(a) = 1 /\ a[1].t = "num" THEN Ret(MathCeil(toDouble(a[1]))) ELSE Ret(Undef)

builtin_floor(a) ==
    IF Len(a) = 1 /\ a[1].t = "num" THEN Ret(MathFloor(toDouble(a[1]))) ELSE Ret(Undef)

builtin_sqrt(a) ==
    IF Len(a) = 1 /\ a[1].t = "num" THEN Ret(Libm("sqrt", toDouble(a[1]))) ELSE Ret(Undef)

builtin_exp(a) ==
    IF Len(a) = 1 /\ a[1].t = "num" THEN Ret(Libm("exp", toDouble(a[1]))) ELSE Ret(Undef)

\* len(): the number of elements of a Vector, of code points of a String.
builtin_length(a) ==
    IF Len(a) = 1 /\ a[1].t = "vec" THEN Ret(Num(Len(toVector(a[1]))))
    ELSE IF Len(a) = 1 /\ a[1].t = "str" THEN Ret(Num(Len(a[1].s)))
    ELSE Ret(Undef)

\* log(y) / log(x), with x = 10 for one argument and the first argument as
\* the base for two.
builtin_log(a) ==
    IF (Len(a) = 1 \/ Len(a) = 2) /\ a[1].t = "num"
    THEN IF Len(a) > 1 /\ a[2].t # "num" THEN Ret(Undef)
         ELSE LET x == IF Len(a) > 1 THEN toDouble(a[1]) ELSE Num(10)
                  y == IF Len(a) > 1 THEN toDouble(a[2]) ELSE toDouble(a[1])
              IN  Ret(Libm("log/log", <<y, x>>))
    ELSE Ret(Undef)

builtin_ln(a) ==
    IF Len(a) = 1 /\ a[1].t = "num" THEN Ret(Libm("log", toDouble(a[1]))) ELSE Ret(Undef)

(***************************************************************************)
(* str.  Value::toString() is in value.cc, outside src/: a String is its   *)
(* own text, a whole Number its decimal digits, a Vector its elements in   *)
(* brackets separated by ", " (a String element in quotes), Undefined      *)
(* "undef".  The Numbers drawn for it are whole.                           *)
(***************************************************************************)
RECURSIVE Digits(_)
Digits(n) == IF n < 10 THEN <<48 + n>> ELSE Append(Digits(n \div 10), 48 + (n % 10))

NumberText(x) ==
    IF x.k = "nan" THEN <<110, 97, 110>>
    ELSE IF x.k = "inf" THEN (IF x.n < 0 THEN <<45, 105, 110, 102>> ELSE <<105, 110, 102>>)
    ELSE IF x.n < 0 THEN <<45>> \o Digits((-x.n) \div x.d)
    ELSE Digits(x.n \div x.d)

RECURSIVE JoinText(_, _)
\* The texts of ts from the i-th on, separated by ", ".
JoinText(ts, i) ==
    IF i > Len(ts) THEN <<>>
    ELSE IF i = Len(ts) THEN ts[i]
    ELSE ts[i] \o <<44, 32>> \o JoinText(ts, i + 1)

RECURSIVE toString(_)
toString(v) ==
    IF v.t = "str" THEN v.s
    ELSE IF v.t = "num" THEN NumberText(v)
    ELSE IF v.t = "vec"
    THEN <<91>> \o JoinText([i \in 1..Len(v.v) |->
                                IF v.v[i].t = "str" THEN <<34>> \o v.v[i].s \o <<34>>
                                ELSE toString(v.v[i])], 1) \o <<93>>
    ELSE <<117, 110, 100, 101, 102>>

RECURSIVE builtin_str_from(_, _, _)
\* for (i = 0; i < numArgs(); i++) stream << getArgValue(i).toString();
builtin_str_from(a, i, stream) ==
    IF i > Len(a) THEN Ret(Str(stream))
    ELSE builtin_str_from(a, i + 1, stream \o toString(a[i]))

builtin_str(a) == builtin_str_from(a, 1, <<>>)

RECURSIVE builtin_concat_from(_, _, _)
\* for (i = 0; i < numArgs(); i++): a Vector adds its elements, another
\* value adds itself.
builtin_concat_from(a, i, acc) ==
    IF i > Len(a) THEN Ret(Vec(acc))
    ELSE builtin_concat_from(a, i + 1,
             IF a[i].t = "vec" THEN acc \o toVector(a[i]) ELSE Append(acc, a[i]))

builtin_concat(a) == builtin_concat_from(a, 1, <<>>)

(***************************************************************************)
(* version, version_num, parent_module, norm, cross.                       *)
(***************************************************************************)
\* The macros OPENSCAD_YEAR, OPENSCAD_MONTH, OPENSCAD_DAY of a dated build.
OPENSCAD_VERSION == <<2013, 6, 15>>

builtin_version(a) ==
    Ret(Vec([i \in 1..Len(OPENSCAD_VERSION) |-> Num(OPENSCAD_VERSION[i])]))

builtin_version_num(a) ==
    LET val == IF Len(a) = 0 THEN builtin_version(a).ret ELSE a[1] IN
    IF getVec3(val)
    THEN Ret(DAdd(DAdd(DMul(val.v[1], Num(10000)), DMul(val.v[2], Num(100))), val.v[3]))
    ELSE IF getVec2(val)
    THEN Ret(DAdd(DAdd(DMul(val.v[1], Num(10000)), DMul(val.v[2], Num(100))), Num(0)))
    ELSE Ret(Undef)

\* stack is Module::module_stack, the names of the modules being instantiated.
builtin_parent_module(a, stack) ==
    IF Len(a) > 1 THEN Ret(Undef)
    ELSE IF Len(a) = 1 /\ a[1].t # "num" THEN Ret(Undef)
    ELSE LET s == Len(stack)
             n == IF Len(a) = 0 THEN 1 ELSE ToInt(toDouble(a[1]))
         IN  IF n < 0
             THEN RetMsg(Undef, <<"WARNING: Negative parent module index not allowed">>)
             ELSE IF n >= s
             THEN RetMsg(Undef, <<"WARNING: Parent module index greater than the number of modules on the stack">>)
             ELSE Ret(Str(stack[s - n]))

RECURSIVE NormLoop(_, _, _)
\* for (i = 0; i < n; i++): sum += x*x, or the warning at a non-Number.
NormLoop(v, i, sum) ==
    IF i > Len(v) THEN Ret(Libm("sqrt", sum))
    ELSE IF v[i].t = "num"
    THEN NormLoop(v, i + 1, DAdd(sum, DMul(toDouble(v[i]), toDouble(v[i]))))
    ELSE RetMsg(Undef, <<"WARNING: Incorrect arguments to norm()">>)

builtin_norm(a) ==
    IF Len(a) = 1 /\ a[1].t = "vec" THEN NormLoop(toVector(a[1]), 1, Num(0))
    ELSE Ret(Undef)

RECURSIVE CrossCheckNumbersOnly(_, _, _)
\* As CrossCheck, but NaN and the infinities pass.
CrossCheckNumbersOnly(v0, v1, i) ==
    IF i > 3 THEN <<>>
    ELSE IF v0[i].t # "num" \/ v1[i].t # "num"
    THEN <<"WARNING: Invalid value in parameter vector for cross()">>
    ELSE CrossCheckNumbersOnly(v0, v1, i + 1)

RECURSIVE CrossCheck(_, _, _)
\* for (a = 0; a < 3; a++): the first component pair that is rejected, as
\* the warning it gives; <<>> when all three pass.
CrossCheck(v0, v1, i) ==
    IF i > 3 THEN <<>>
    ELSE IF v0[i].t # "num" \/ v1[i].t # "num"
    THEN <<"WARNING: Invalid value in parameter vector for cross()">>
    ELSE IF v0[i].k = "nan" \/ v1[i].k = "nan"
    THEN <<"WARNING: Invalid value (NaN) in parameter vector for cross()">>
    ELSE IF v0[i].k = "inf" \/ v1[i].k = "inf"
    THEN <<"WARNING: Invalid value (INF) in parameter vector for cross()">>
    ELSE CrossCheck(v0, v1, i + 1)

builtin_cross(a) ==
    IF Len(a) # 2
    THEN RetMsg(Undef, <<"WARNING: Invalid number of parameters for cross()">>)
    ELSE IF a[1].t # "vec" \/ a[2].t # "vec"
    THEN RetMsg(Undef, <<"WARNING: Invalid type of parameters for cross()">>)
    ELSE LET v0 == toVector(a[1])
             v1 == toVector(a[2])
         IN  IF Len(v0) # 3 \/ Len(v1) # 3
             THEN RetMsg(Undef, <<"WARNING: Invalid vector size of parameter for cross()">>)
             ELSE IF CrossCheck(v0, v1, 1) # <<>>
             THEN RetMsg(Undef, CrossCheck(v0, v1, 1))
             ELSE Ret(Vec(<<DSub(DMul(v0[2], v1[3]), DMul(v0[3], v1[2])),
                            DSub(DMul(v0[3], v1[1]), DMul(v0[1], v1[3])),
                            DSub(DMul(v0[1], v1[2]), DMul(v0[2], v1[1]))>>))

(***************************************************************************)
(* The argument slots (from 0) that a call passes to getArgValue, builtin  *)
(* by builtin, in the order of the code's checks.                          *)
(***************************************************************************)
\* if (numArgs() == 1) getArgValue(0)
SlotsOfOne(a) == IF Len(a) = 1 THEN {0} ELSE {}

\* if (numArgs() == 2) getArgValue(0), getArgValue(1)
SlotsOfTwo(a) == IF Len(a) = 2 THEN {0, 1} ELSE {}

\* As SlotsOfRands, but the seed slot is read whatever the argument count.
SlotsOfRandsSeedAlways(a) ==
    IF Len(a) = 3 \/ Len(a) = 4 THEN {0, 1, 2, 3} ELSE {}

\* builtin_rands: slots 0, 1, 2 up to the first non-Number, slot 3 when n > 3.
SlotsOfRands(a) ==
    IF Len(a) = 3 \/ Len(a) = 4
    THEN IF a[1].t # "num" THEN {0}
         ELSE IF a[2].t # "num" THEN {0, 1}
         ELSE IF a[3].t # "num" THEN {0, 1, 2}
         ELSE IF Len(a) > 3 THEN {0, 1, 2, 3} ELSE {0, 1, 2}
    ELSE {}

\* builtin_min, builtin_max: slot 0 when n >= 1; then, unless the single
\* non-empty Vector was reduced, slots 1..n-1 up to the first non-Number.
SlotsOfMinMax(a) ==
    IF Len(a) >= 1
    THEN IF Len(a) = 1 /\ a[1].t = "vec" /\ toVector(a[1]) # <<>> THEN {0}
         ELSE IF a[1].t = "num"
         THEN {0} \cup {i \in 1..(Len(a) - 1) :
                          \A j \in 1..(i - 1) : a[j + 1].t = "num"}
         ELSE {0}
    ELSE {}

\* builtin_log: slot 0 when n is 1 or 2, slot 1 when the first is a Number
\* and n > 1.
SlotsOfLog(a) ==
    IF Len(a) = 1 \/ Len(a) = 2
    THEN (IF a[1].t = "num" /\ Len(a) > 1 THEN {0, 1} ELSE {0})
    ELSE {}

\* builtin_str, builtin_concat: for (i = 0; i < numArgs(); i++) getArgValue(i)
SlotsOfAll(a) == {i \in 0..(Len(a) - 1) : TRUE}

\* builtin_lookup: numArgs() < 2 || !getArgValue(0).getDouble(p) || ...
SlotsOfLookup(a) ==
    IF Len(a) < 2 THEN {}
    ELSE IF ~getDouble(a[1]) THEN {0}
    ELSE {0, 1}

\* builtin_search: slots 0 and 1 when n >= 2, slot 2 when n > 2, slot 3 when
\* n > 3.
SlotsOfSearch(a) ==
    IF Len(a) < 2 THEN {}
    ELSE {0, 1} \cup (IF Len(a) > 2 THEN {2} ELSE {})
                \cup (IF Len(a) > 3 THEN {3} ELSE {})

\* builtin_version_num: (numArgs() == 0) ? builtin_version() : getArgValue(0)
SlotsOfVersionNum(a) == IF Len(a) = 0 THEN {} ELSE {0}

\* The slots read by the call name(a).
SlotsRead(name, a) ==
    IF name \in {"abs", "sign", "sin", "cos", "asin", "acos", "tan", "atan",
                 "round", "ceil", "floor", "sqrt", "exp", "len", "ln", "norm",
                 "parent_module"}
    THEN SlotsOfOne(a)
    ELSE IF name \in {"atan2", "pow", "cross"} THEN SlotsOfTwo(a)
    ELSE IF name = "rands" THEN SlotsOfRands(a)
    ELSE IF name \in {"min", "max"} THEN SlotsOfMinMax(a)
    ELSE IF name = "log" THEN SlotsOfLog(a)
    ELSE IF name \in {"str", "concat"} THEN SlotsOfAll(a)
    ELSE IF name = "lookup" THEN SlotsOfLookup(a)
    ELSE IF name = "search" THEN SlotsOfSearch(a)
    ELSE IF name = "version_num" THEN SlotsOfVersionNum(a)
    ELSE {}

(***************************************************************************)
(* The host evaluator's call of a builtin that touches no process state    *)
(* (BuiltinFunction::evaluate).  Calls are synchronous: the host makes one *)
(* call at a time and takes its result before the next.  A call that read  *)
(* a vector out of range has undefined behaviour: the value it hands back, *)
(* if any, is arbitrary.                                                   *)
(***************************************************************************)
Garbage == {Undef, Num(0), Vec(<<>>)}

Idle == fn = "none"

Invoke(name, a, r) ==
    /\ fn' = name
    /\ args' = a
    /\ diag' = r.msgs
    /\ oob' = r.fail
    /\ IF r.fail THEN result' \in Garbage ELSE result' = r.ret
    /\ UNCHANGED <<deterministic_rng, lessdeterministic_rng, module_stack>>

(***************************************************************************)
(* Inputs of min / max.                                                    *)
(***************************************************************************)
MinMaxScalars == {Num(1), Num(2), Num(3), NaN, Str(<<120>>)}
MinMaxArgs ==
    SeqsOf(MinMaxScalars, 0, MaxArgs)
        \cup {<<Vec(v)>> : v \in SeqsOf(MinMaxScalars, 0, MaxVecLen)}

CallMin(A) == Idle /\ \E a \in A : Invoke("min", a, builtin_min(a))
CallMax(A) == Idle /\ \E a \in A : Invoke("max", a, builtin_max(a))

(***************************************************************************)
(* Inputs of lookup: tables of up to MaxRows rows, well-formed or not.     *)
(***************************************************************************)
LookupPairs == {Vec(<<Num(x), Num(y)>>) : x \in {1, 3, 5}, y \in {10, 40}}
LookupBadRows == {Num(7), Vec(<<Num(3)>>), Vec(<<Num(3), Str(<<120>>)>>)}
LookupTables == {Vec(t) : t \in SeqsOf(LookupPairs \cup LookupBadRows, 0, MaxRows)}
LookupPositions == {Num(x) : x \in 0..6} \cup {NaN, Str(<<120>>)}
LookupArgs ==
    {<<p, t>> : p \in LookupPositions, t \in LookupTables}
        \cup {<<>>, <<Num(2)>>, <<Num(2), Num(7)>>, <<Num(2), Str(<<120>>)>>,
              <<Num(2), Vec(<<Vec(<<Num(1), Num(10)>>)>>), Num(0)>>}

CallLookup(A) == Idle /\ \E a \in A : Invoke("lookup", a, builtin_lookup(a))

(***************************************************************************)
(* Inputs of search.  Code points: 97 'a', 98 'b', 99 'c'.                 *)
(***************************************************************************)
SearchRows ==
    {Vec(<<Str(<<97>>), Num(1)>>), Vec(<<Str(<<98, 97>>)>>), Vec(<<Num(1), Str(<<97>>)>>),
     Vec(<<>>), Num(1), Str(<<97>>)}
SearchHaystacks ==
    {Str(s) : s \in SeqsOf({97, 98}, 0, MaxHaystack)}
        \cup {Vec(t) : t \in SeqsOf(SearchRows, 0, MaxHaystack)}
        \cup {Num(1), Undef}
SearchNeedles ==
    {Str(s) : s \in SeqsOf({97, 98, 99}, 0, MaxNeedle)}
        \cup {Vec(t) : t \in SeqsOf({Num(1), Num(2), Str(<<97>>), Undef}, 0, MaxNeedle)}
        \cup {Num(1), Num(2), Undef}
SearchCounts == {Num(0), Num(1), Num(2)}
SearchColumns == {Num(0), Num(1)}
\* The argument lists of search by their length: fewer than two arguments,
\* then needle and haystack, with num_returns_per_match, with index_col_num.
SearchArgsShort == {<<>>, <<Str(<<97>>)>>}
SearchArgs2 == SearchNeedles \X SearchHaystacks
SearchArgs3 == SearchNeedles \X SearchHaystacks \X SearchCounts
SearchArgs4 == SearchNeedles \X SearchHaystacks \X SearchCounts \X SearchColumns

\* What a read of freed memory may find: the bytes intact (-1), a terminator
\* or another code point.
FreedMemory == {-1, 0, 98}

\* The calls that read freed memory are those of the overload
\* search(const std::string&, const Value::VectorType&).
MemoryRead(a) ==
    IF Len(a) >= 2 /\ a[1].t = "str" /\ a[2].t # "str" THEN FreedMemory ELSE {-1}

CallSearch(A) ==
    Idle /\ \E a \in A : \E mem \in MemoryRead(a) :
        Invoke("search", a, builtin_search(a, mem))

(***************************************************************************)
(* Inputs of sin / cos: the multiples of 15 degrees within MaxTurns turns  *)
(* of 0 and of the two thresholds, a few angles off that grid, NaN and the *)
(* infinities.                                                             *)
(***************************************************************************)
TrigOffsets == {15 * i : i \in (-24 * MaxTurns)..(24 * MaxTurns)}
TrigAngles ==
    {Fin(h, n, 1) : h \in {-1, 0, 1}, n \in TrigOffsets}
        \cup {Fin(0, n, 2) : n \in {-61, 1, 61, 719, 721}}
        \cup {Fin(2, 0, 1), Fin(-2, 0, 1), NaN, Inf(1), Inf(-1)}
TrigArgs ==
    {<<x>> : x \in TrigAngles}
        \cup {<<>>, <<Str(<<120>>)>>, <<Undef>>, <<Num(30), Num(30)>>}

CallSin(A) == Idle /\ \E a \in A : Invoke("sin", a, builtin_sin(a))
CallCos(A) == Idle /\ \E a \in A : Invoke("cos", a, builtin_cos(a))

(***************************************************************************)
(* Inputs of rands; the call reads and writes the two generators.          *)
(***************************************************************************)
RandsBounds == {Num(0), Num(1), Num(3)}
RandsCounts == {Num(-1), Num(0), Num(1), Num(2), Fin(0, 5, 2)}
RandsSeeds == {Num(0), Num(1), Num(2), Num(11)}
RandsArgs ==
    {<<lo, hi, c>> : lo \in RandsBounds, hi \in RandsBounds, c \in RandsCounts}
        \cup {<<lo, hi, c, sd>> : lo \in RandsBounds, hi \in RandsBounds,
                                   c \in RandsCounts, sd \in RandsSeeds}
        \cup {<<>>, <<Num(0)>>, <<Num(0), Num(1)>>,
              <<Num(0), Num(1), Num(2), Num(1), Num(0)>>,
              <<Str(<<120>>), Num(1), Num(2)>>, <<Num(0), Undef, Num(2), Num(1)>>,
              <<Num(0), Num(1), Str(<<120>>), Num(1)>>,
              <<Num(0), Num(1), Num(2), Str(<<120>>)>>}

CallRands(A) ==
    Idle /\ \E a \in A :
        LET r == builtin_rands(a, deterministic_rng, lessdeterministic_rng) IN
        /\ fn' = "rands"
        /\ args' = a
        /\ result' = r.ret
        /\ diag' = r.msgs
        /\ oob' = r.fail
        /\ deterministic_rng' = r.det
        /\ lessdeterministic_rng' = r.less
        /\ UNCHANGED module_stack

(***************************************************************************)
(* Inputs of the whole catalogue: every argument list of up to MaxProbe    *)
(* values, one of each variant.  The host pushes and pops the names of the *)
(* modules it instantiates between calls (Module::module_stack).           *)
(***************************************************************************)
ProbeValues == {Undef, Num(1), Str(<<97>>), Vec(<<Num(1), Num(0), Num(0)>>)}
ProbeArgs == SeqsOf(ProbeValues, 0, MaxProbe)
ModuleNames == {<<97>>, <<98>>}

CallAbs(A) == Idle /\ \E a \in A : Invoke("abs", a, builtin_abs(a))
CallSign(A) == Idle /\ \E a \in A : Invoke("sign", a, builtin_sign(a))
CallAsin(A) == Idle /\ \E a \in A : Invoke("asin", a, builtin_asin(a))
CallAcos(A) == Idle /\ \E a \in A : Invoke("acos", a, builtin_acos(a))
CallTan(A) == Idle /\ \E a \in A : Invoke("tan", a, builtin_tan(a))
CallAtan(A) == Idle /\ \E a \in A : Invoke("atan", a, builtin_atan(a))
CallAtan2(A) == Idle /\ \E a \in A : Invoke("atan2", a, builtin_atan2(a))
CallRound(A) == Idle /\ \E a \in A : Invoke("round", a, builtin_round(a))
CallCeil(A) == Idle /\ \E a \in A : Invoke("ceil", a, builtin_ceil(a))
CallFloor(A) == Idle /\ \E a \in A : Invoke("floor", a, builtin_floor(a))
CallPow(A) == Idle /\ \E a \in A : Invoke("pow", a, builtin_pow(a))
CallSqrt(A) == Idle /\ \E a \in A : Invoke("sqrt", a, builtin_sqrt(a))
CallExp(A) == Idle /\ \E a \in A : Invoke("exp", a, builtin_exp(a))
CallLen(A) == Idle /\ \E a \in A : Invoke("len", a, builtin_length(a))
CallLog(A) == Idle /\ \E a \in A : Invoke("log", a, builtin_log(a))
CallLn(A) == Idle /\ \E a \in A : Invoke("ln", a, builtin_ln(a))
CallStr(A) == Idle /\ \E a \in A : Invoke("str", a, builtin_str(a))
CallConcat(A) == Idle /\ \E a \in A : Invoke("concat", a, builtin_concat(a))
CallVersion(A) == Idle /\ \E a \in A : Invoke("version", a, builtin_version(a))
CallVersionNum(A) ==
    Idle /\ \E a \in A : Invoke("version_num", a, builtin_version_num(a))
CallNorm(A) == Idle /\ \E a \in A : Invoke("norm", a, builtin_norm(a))
CallCross(A) == Idle /\ \E a \in A : Invoke("cross", a, builtin_cross(a))
CallParentModule(A) ==
    Idle /\ \E a \in A :
        Invoke("parent_module", a, builtin_parent_module(a, module_stack))

\* The host starts instantiating a module.
ModulePush ==
    /\ Idle
    /\ Len(module_stack) < MaxStack
    /\ \E m \in ModuleNames : module_stack' = Append(module_stack, m)
    /\ UNCHANGED <<fn, args, result, diag, oob, deterministic_rng,
                   lessdeterministic_rng>>

\* The host has instantiated the innermost module.
ModulePop ==
    /\ Idle
    /\ module_stack # <<>>
    /\ module_stack' = SubSeq(module_stack, 1, Len(module_stack) - 1)
    /\ UNCHANGED <<fn, args, result, diag, oob, deterministic_rng,
                   lessdeterministic_rng>>

(***************************************************************************)
(* Inputs of cross: the vectors of up to MaxVecLen finite components, and  *)
(* 3-element vectors with a NaN, an infinity or a value that is no Number. *)
(***************************************************************************)
CrossComponents == {Num(0), Num(1), Num(-2), Fin(0, 1, 2)}
CrossVectors ==
    {Vec(v) : v \in SeqsOf(CrossComponents, 0, MaxVecLen)}
        \cup {Vec(<<NaN, Num(1), Num(0)>>), Vec(<<Num(1), Num(0), NaN>>),
              Vec(<<Num(1), Inf(1), Num(0)>>), Vec(<<Inf(-1), Num(1), Num(0)>>),
              Vec(<<Num(1), Str(<<97>>), Num(0)>>), Vec(<<Num(1), Num(0), Undef>>),
              Vec(<<Vec(<<>>), Num(1), Num(0)>>)}
CrossArgs2 == CrossVectors \X CrossVectors
CrossArgsOther ==
    {<<>>, <<Vec(<<Num(1), Num(0), Num(0)>>)>>,
     <<Vec(<<Num(1), Num(0), Num(0)>>), Vec(<<Num(0), Num(1), Num(0)>>),
       Vec(<<Num(0), Num(0), Num(1)>>)>>,
     <<Num(1), Vec(<<Num(0), Num(1), Num(0)>>)>>,
     <<Vec(<<Num(1), Num(0), Num(0)>>), Str(<<97>>)>>,
     <<Undef, Undef>>}

(***************************************************************************)
(* Initial state: no call made yet; deterministic_rng is default-seeded,   *)
(* lessdeterministic_rng is seeded from the clock and the process id.      *)
(***************************************************************************)
DefaultSeed == 5489 % RngModulus

Init ==
    /\ fn = "none"
    /\ args = <<>>
    /\ result = Undef
    /\ diag = <<>>
    /\ oob = FALSE
    /\ deterministic_rng = DefaultSeed
    /\ lessdeterministic_rng \in 0..(RngModulus - 1)
    /\ module_stack = <<>>

\* The host takes the result of the call; the process state stays.
Return ==
    /\ fn # "none"
    /\ fn' = "none"
    /\ args' = <<>>
    /\ result' = Undef
    /\ diag' = <<>>
    /\ oob' = FALSE
    /\ UNCHANGED <<deterministic_rng, lessdeterministic_rng, module_stack>>

\* The pure builtins are explored from one seeding of lessdeterministic_rng.
InitPure == Init /\ lessdeterministic_rng = 0

NextMinMax == CallMin(MinMaxArgs) \/ CallMax(MinMaxArgs) \/ Return
SpecMinMax == InitPure /\ [][NextMinMax]_vars

NextSearch ==
    \/ CallSearch(SearchArgsShort) \/ CallSearch(SearchArgs2)
    \/ CallSearch(SearchArgs3) \/ CallSearch(SearchArgs4)
    \/ Return
SpecSearch == InitPure /\ [][NextSearch]_vars

NextRands == CallRands(RandsArgs) \/ Return
SpecRands == Init /\ [][NextRands]_vars

NextTrig == CallSin(TrigArgs) \/ CallCos(TrigArgs) \/ Return
SpecTrig == InitPure /\ [][NextTrig]_vars

NextLookup == CallLookup(LookupArgs) \/ Return
SpecLookup == InitPure /\ [][NextLookup]_vars

NextCross == CallCross(CrossArgs2) \/ CallCross(CrossArgsOther) \/ Return
SpecCross == InitPure /\ [][NextCross]_vars

\* The whole catalogue of register_builtin_functions, called with the probe
\* arguments.
NextBuiltins ==
    \/ CallAbs(ProbeArgs) \/ CallSign(ProbeArgs) \/ CallRands(ProbeArgs)
    \/ CallMin(ProbeArgs) \/ CallMax(ProbeArgs)
    \/ CallSin(ProbeArgs) \/ CallCos(ProbeArgs)
    \/ CallAsin(ProbeArgs) \/ CallAcos(ProbeArgs)
    \/ CallTan(ProbeArgs) \/ CallAtan(ProbeArgs) \/ CallAtan2(ProbeArgs)
    \/ CallRound(ProbeArgs) \/ CallCeil(ProbeArgs) \/ CallFloor(ProbeArgs)
    \/ CallPow(ProbeArgs) \/ CallSqrt(ProbeArgs) \/ CallExp(ProbeArgs)
    \/ CallLen(ProbeArgs) \/ CallLog(ProbeArgs) \/ CallLn(ProbeArgs)
    \/ CallStr(ProbeArgs) \/ CallConcat(ProbeArgs)
    \/ CallLookup(ProbeArgs) \/ CallSearch(ProbeArgs)
    \/ CallVersion(ProbeArgs) \/ CallVersionNum(ProbeArgs)
    \/ CallNorm(ProbeArgs) \/ CallCross(ProbeArgs)
    \/ CallParentModule(ProbeArgs)
    \/ ModulePush \/ ModulePop
    \/ Return
SpecBuiltins == InitPure /\ [][NextBuiltins]_vars

(***************************************************************************)
(* Claims about min / max.                                                 *)
(***************************************************************************)
\* The number of leading arguments that are Numbers.
NumberPrefix(a) ==
    IF \A i \in 1..Len(a) : IsNum(a[i]) THEN Len(a)
    ELSE (CHOOSE i \in 1..Len(a) : ~IsNum(a[i]) /\ \A j \in 1..(i - 1) : IsNum(a[j])) - 1

PositionalCall ==
    /\ fn \in {"min", "max"}
    /\ Len(args) >= 1
    /\ IsNum(args[1])

SingleVectorCall ==
    /\ fn \in {"min", "max"}
    /\ Len(args) = 1
    /\ IsVec(args[1])
    /\ args[1].v # <<>>
    /\ \A i \in 1..Len(args[1].v) : IsNum(args[1].v[i])

\* C10: min/max of one non-empty Vector of Numbers return an element of the
\* vector that no element is strictly better than (the minimum / maximum when
\* no element is NaN), and the first element, the seed, is given up only for a
\* strictly smaller (min) or strictly larger (max) one.
C10_SingleVectorReduction ==
    SingleVectorCall =>
        LET v == args[1].v
            Better(x, y) == IF fn = "min" THEN DLess(x, y) ELSE DGt(x, y)
            NoWorse(x, y) == IF fn = "min" THEN DLe(x, y) ELSE DGe(x, y)
        IN  /\ result \in {v[i] : i \in 1..Len(v)}
            /\ \A i \in 1..Len(v) : ~Better(v[i], result)
            /\ (\A i \in 1..Len(v) : v[i].k # "nan") =>
                  \A i \in 1..Len(v) : NoWorse(result, v[i])
            /\ result # v[1] => Better(result, v[1])

\* C10 witness: min([3,2,1]) has returned 1, the last element.
C10_Witness ==
    /\ fn = "min"
    /\ args = <<Vec(<<Num(3), Num(2), Num(1)>>)>>
    /\ result = Num(1)

(***************************************************************************)
(* Claims about lookup.                                                    *)
(***************************************************************************)
IsPair(row) == getVec2(row) /\ IsFinite(row.v[1]) /\ IsFinite(row.v[2])

\* lookup(p, table) with a finite p and a non-empty table of pairs of numbers.
WellFormedLookup ==
    /\ fn = "lookup"
    /\ Len(args) >= 2
    /\ IsFinite(args[1])
    /\ IsVec(args[2])
    /\ args[2].v # <<>>
    /\ \A i \in 1..Len(args[2].v) : IsPair(args[2].v[i])

\* The first row of table t whose position is x.
FirstRowAt(t, x) ==
    t[CHOOSE i \in 1..Len(t) :
        /\ DEq(t[i].v[1], x)
        /\ \A j \in 1..(i - 1) : ~DEq(t[j].v[1], x)]

LeastOf(S) == CHOOSE x \in S : \A y \in S : DLe(x, y)
GreatestOf(S) == CHOOSE x \in S : \A y \in S : DLe(y, x)

\* C4: lookup(p, table), rows in any order: at the position of a row the
\* result is that row's value; below the lowest position it is the value of
\* the lowest row and above the highest that of the highest row; strictly
\* between two positions it is high_v*f + low_v*(1-f), f = (p-low_p)/(high_p-
\* low_p), low and high being the nearest rows below and above p.  (Of several
\* rows with one position the first in table order counts.)
C4_LookupInterpolates ==
    WellFormedLookup =>
        LET p == args[1]
            t == args[2].v
            Positions == {t[i].v[1] : i \in 1..Len(t)}
            Below == {x \in Positions : DLess(x, p)}
            Above == {x \in Positions : DLess(p, x)}
        IN  IF \E x \in Positions : DEq(x, p)
            THEN result = FirstRowAt(t, p).v[2]
            ELSE IF Below = {}
            THEN result = FirstRowAt(t, LeastOf(Positions)).v[2]
            ELSE IF Above = {}
            THEN result = FirstRowAt(t, GreatestOf(Positions)).v[2]
            ELSE LET low == FirstRowAt(t, GreatestOf(Below))
                     high == FirstRowAt(t, LeastOf(Above))
                 IN  /\ IsFinite(result)
                     /\ DEq(DMul(result, DSub(high.v[1], low.v[1])),
                            DAdd(DMul(high.v[2], DSub(p, low.v[1])),
                                 DMul(low.v[2], DSub(high.v[1], p))))

\* C4 witness: lookup(2, [[3,40],[1,10]]) has returned 25 from an unsorted table.
C4_Witness ==
    /\ fn = "lookup"
    /\ args = <<Num(2), Vec(<<Vec(<<Num(3), Num(40)>>), Vec(<<Num(1), Num(10)>>)>>)>>
    /\ result = Num(25)

LookupOnTable ==
    /\ fn = "lookup"
    /\ Len(args) >= 2
    /\ IsVec(args[2])
    /\ args[2].v # <<>>

\* C5 as claimed: lookup returns Undefined whenever any row of the table, the
\* first or a later one, is not a 2-element vector of Numbers.
C5_AnyMalformedRowGivesUndefined ==
    (LookupOnTable /\ \E i \in 1..Len(args[2].v) : ~getVec2(args[2].v[i]))
        => result = Undef

\* The rows of t that are pairs of Numbers, in order.
RECURSIVE PairsOf(_)
PairsOf(t) ==
    IF t = <<>> THEN <<>>
    ELSE IF getVec2(Head(t)) THEN <<Head(t)>> \o PairsOf(Tail(t))
    ELSE PairsOf(Tail(t))

\* C5 as amended: lookup returns Undefined whenever the first row of the table
\* is not a 2-element vector of Numbers; a later row that is not one is
\* skipped, the result being that of the table without it.
C5_FirstMalformedRowGivesUndefined ==
    LookupOnTable =>
        LET t == args[2].v IN
        /\ ~getVec2(t[1]) => result = Undef
        /\ (getVec2(t[1]) /\ IsNum(args[1])) =>
               result = builtin_lookup(<<args[1], Vec(PairsOf(t))>>).ret

\* C5 witness: lookup(2, [[3],[1,10]]) has returned Undefined.
C5_Witness ==
    /\ fn = "lookup"
    /\ args = <<Num(2), Vec(<<Vec(<<Num(3)>>), Vec(<<Num(1), Num(10)>>)>>)>>
    /\ result = Undef

\* C8: no call of lookup or search reads a vector at or past its size.
C8_NoOutOfRangeRead ==
    fn \in {"lookup", "search"} => ~oob

(***************************************************************************)
(* Claims about search.                                                    *)
(***************************************************************************)
SearchCall == fn = "search" /\ Len(args) >= 2 /\ ~oob
Needle == args[1]
Haystack == args[2]
ReturnsPerMatch == IF Len(args) > 2 THEN ToUnsigned(toDouble(args[3])) ELSE 1
IndexColumn == IF Len(args) > 3 THEN ToUnsigned(toDouble(args[4])) ELSE 0

NeedleCount ==
    IF Needle.t = "num" THEN 1
    ELSE IF Needle.t = "str" THEN Len(Needle.s)
    ELSE Len(toVector(Needle))

\* A String needle against a haystack that is no String: the code points of
\* the rows are read through a dangling pointer, so what matches is not fixed.
RowMode == Needle.t = "str" /\ Haystack.t # "str"

\* The positions (from 0) of the haystack that needle element i matches.
MatchSet(i) ==
    IF Needle.t = "str"
    THEN {j \in 0..(Len(Haystack.s) - 1) : Haystack.s[j + 1] = Needle.s[i]}
    ELSE LET e == IF Needle.t = "num" THEN Needle ELSE Needle.v[i]
             t == toVector(Haystack)
         IN  {j \in 0..(Len(t) - 1) :
                \/ IndexColumn = 0 /\ ValueEq(e, t[j + 1])
                \/ /\ IndexColumn < Len(toVector(t[j + 1]))
                   /\ ValueEq(e, toVector(t[j + 1])[IndexColumn + 1])}

\* The first rpm elements of S (all when rpm = 0) in increasing order.
FirstMatches(S, rpm) ==
    LET n == Cardinality(S)
        q == CHOOSE f \in [1..n -> S] : \A x, y \in 1..n : x < y => f[x] < f[y]
        k == IF rpm = 0 \/ n <= rpm THEN n ELSE rpm
    IN  [i \in 1..k |-> Num(q[i])]

RECURSIVE FlatFrom(_)
\* One scalar per needle element that has a match, from element i on.
FlatFrom(i) ==
    IF i > NeedleCount THEN <<>>
    ELSE FirstMatches(MatchSet(i), 1) \o FlatFrom(i + 1)

\* One sub-sequence per needle element, present even when empty.
Nested == [i \in 1..NeedleCount |-> Vec(FirstMatches(MatchSet(i), ReturnsPerMatch))]

\* The shape alone, for the mode whose matches are not fixed.
FlatShape ==
    /\ \A i \in 1..Len(result.v) : IsNum(result.v[i])
    /\ Len(result.v) + Len(diag) = NeedleCount

NestedShape ==
    /\ Len(result.v) = NeedleCount
    /\ \A i \in 1..NeedleCount :
          /\ IsVec(result.v[i])
          /\ \A j \in 1..Len(result.v[i].v) : IsNum(result.v[i].v[j])
          /\ ReturnsPerMatch > 0 => Len(result.v[i].v) <= ReturnsPerMatch
    /\ Cardinality({i \in 1..NeedleCount : result.v[i].v = <<>>}) = Len(diag)

\* What the claim says of every needle mode.
ClaimedShape ==
    /\ IsVec(result)
    /\ IF ReturnsPerMatch = 1
       THEN (IF RowMode THEN FlatShape ELSE result.v = FlatFrom(1))
       ELSE (IF RowMode THEN NestedShape ELSE result.v = Nested)

SupportedCombination ==
    \/ Needle.t = "num" /\ Haystack.t = "vec"
    \/ Needle.t = "str" /\ Haystack.t \in {"str", "vec"}
    \/ Needle.t = "vec" /\ Haystack.t = "vec"

UnsupportedSearch == fn = "search" /\ Len(args) >= 2 /\ ~SupportedCombination

\* C7 as claimed: search returns Undefined and emits a diagnostic for every
\* needle/haystack type combination it does not support.
C7_UnsupportedGivesUndefined ==
    UnsupportedSearch => (result = Undef /\ diag # <<>>)

\* C7 as amended: of the unsupported combinations only a needle that is
\* neither Number, String nor Vector yields Undefined plus a diagnostic; with
\* a Number, String or Vector needle a haystack of an unsupported type is
\* searched as an empty one, and the call returns the Vector, not Undefined,
\* that the empty haystack gives.
C7_OnlyNeedleTypeGivesUndefined ==
    UnsupportedSearch =>
        IF Needle.t \in {"num", "str", "vec"}
        THEN /\ ~oob
             /\ IsVec(result)
             /\ result = builtin_search([args EXCEPT ![2] = Vec(<<>>)], -1).ret
        ELSE result = Undef /\ diag = <<"search: none performed">>

\* C7 witness: search(1, "ab") has returned the empty Vector without a diagnostic.
C7_Witness ==
    /\ fn = "search"
    /\ args = <<Num(1), Str(<<97, 98>>)>>
    /\ result = Vec(<<>>)
    /\ diag = <<>>

(***************************************************************************)
(* Claims about sin / cos.                                                 *)
(***************************************************************************)
TrigCall == fn \in {"sin", "cos"} /\ Len(args) = 1 /\ IsNum(args[1])

TrigOf(name, x) == IF name = "sin" THEN builtin_sin(<<x>>).ret ELSE builtin_cos(<<x>>).ret

BelowThreshold(x) ==
    x.k = "fin" /\ DLess(x, TRIG_HUGE_VAL) /\ DLess(DNeg(TRIG_HUGE_VAL), x)

\* x - 360*floor(x/360) by the remainder of the numerator.
Remainder360(x) == Norm(0, x.n % (360 * x.d), x.d)

\* C9: sin and cos return NaN for every x with |x| at or beyond the threshold
\* TRIG_HUGE_VAL; below it the angle is first reduced to x - 360*floor(x/360)
\* in [0,360), so that sin(x) = sin(x + 360*k) and cos(x) = cos(x + 360*k) for
\* every integer k (x + 360*k below the threshold too); sin(30) and cos(60)
\* are exactly 0.5.
C9_TrigReduction ==
    TrigCall =>
        LET x == args[1] IN
        /\ ~BelowThreshold(x) => result = NaN
        /\ BelowThreshold(x) =>
              /\ DLe(Num(0), Remainder360(x)) /\ DLess(Remainder360(x), Num(360))
              /\ result = TrigOf(fn, Remainder360(x))
              /\ \A k \in (-MaxTurns)..MaxTurns :
                    LET y == DAdd(x, Num(360 * k)) IN
                    BelowThreshold(y) => result = TrigOf(fn, y)
        /\ (fn = "sin" /\ x = Num(30)) => result = Fin(0, 1, 2)
        /\ (fn = "cos" /\ x = Num(60)) => result = Fin(0, 1, 2)

\* C9 witness: sin(-330), one turn below 30 degrees, has returned exactly 0.5.
C9_Witness ==
    /\ fn = "sin"
    /\ args = <<Num(-330)>>
    /\ result = Fin(0, 1, 2)

(***************************************************************************)
(* Claims about arity and type mismatches.                                 *)
(***************************************************************************)
AllNumbers(a) == \A i \in 1..Len(a) : IsNum(a[i])

OneNumberBuiltins ==
    {"abs", "sign", "sin", "cos", "asin", "acos", "tan", "atan", "round",
     "ceil", "floor", "sqrt", "exp", "ln"}

\* The call name(a) has the wrong number of arguments, or an argument of the
\* wrong variant where the builtin's contract names one.  (concat and version
\* take every argument list; of min, max, lookup, search and version_num the
\* argument count and the variant of the first argument are judged.)
Mismatch(name, a) ==
    IF name \in OneNumberBuiltins THEN ~(Len(a) = 1 /\ AllNumbers(a))
    ELSE IF name \in {"atan2", "pow"} THEN ~(Len(a) = 2 /\ AllNumbers(a))
    ELSE IF name = "log" THEN ~(Len(a) \in {1, 2} /\ AllNumbers(a))
    ELSE IF name = "rands" THEN ~(Len(a) \in {3, 4} /\ AllNumbers(a))
    ELSE IF name = "len" THEN ~(Len(a) = 1 /\ (IsVec(a[1]) \/ IsStr(a[1])))
    ELSE IF name = "norm" THEN ~(Len(a) = 1 /\ IsVec(a[1]))
    ELSE IF name = "parent_module" THEN ~(Len(a) <= 1 /\ AllNumbers(a))
    ELSE IF name = "cross" THEN ~(Len(a) = 2 /\ IsVec(a[1]) /\ IsVec(a[2]))
    ELSE IF name = "version_num" THEN Len(a) >= 1 /\ ~IsVec(a[1])
    ELSE IF name \in {"min", "max"}
    THEN Len(a) = 0 \/ (~IsNum(a[1]) /\ ~(Len(a) = 1 /\ IsVec(a[1])))
    ELSE IF name = "lookup" THEN Len(a) < 2 \/ ~IsNum(a[1])
    ELSE IF name = "search" THEN Len(a) < 2
    ELSE FALSE

FiniteVec3(v) ==
    IsVec(v) /\ Len(v.v) = 3 /\ \A i \in 1..3 : IsFinite(v.v[i])

\* [a1*b2 - a2*b1, a2*b0 - a0*b2, a0*b1 - a1*b0], components counted from 0.
CrossProduct(a, b) ==
    Vec(<<DSub(DMul(a.v[2], b.v[3]), DMul(a.v[3], b.v[2])),
          DSub(DMul(a.v[3], b.v[1]), DMul(a.v[1], b.v[3])),
          DSub(DMul(a.v[1], b.v[2]), DMul(a.v[2], b.v[1]))>>)

\* C12: cross returns the 3D cross product, with no diagnostic, exactly when
\* it is called with two 3-element Vectors of finite Numbers; in every other
\* call it returns Undefined, and when both arguments are Vectors (a wrong
\* size, or a component that is NaN, infinite or no Number) it emits one
\* diagnostic.
C12_CrossProductOrUndefined ==
    fn = "cross" =>
        IF Len(args) = 2 /\ FiniteVec3(args[1]) /\ FiniteVec3(args[2])
        THEN result = CrossProduct(args[1], args[2]) /\ diag = <<>>
        ELSE /\ result = Undef
             /\ (Len(args) = 2 /\ IsVec(args[1]) /\ IsVec(args[2])) => Len(diag) = 1

\* C12 witness: cross([1,0,0], [0,1,0]) has returned [0,0,1].
C12_Witness ==
    /\ fn = "cross"
    /\ args = <<Vec(<<Num(1), Num(0), Num(0)>>), Vec(<<Num(0), Num(1), Num(0)>>)>>
    /\ result = Vec(<<Num(0), Num(0), Num(1)>>)
    /\ diag = <<>>

(***************************************************************************)
(* Claims about the argument slots read.                                   *)
(***************************************************************************)
\* C13: whatever the builtin and the argument count, every slot i passed to
\* getArgValue satisfies i < numArgs().
C13_SlotsReadExist ==
    fn # "none" => \A i \in SlotsRead(fn, args) : i < Len(args)

\* C13 witness: rands has been called with three Numbers, has read the slots
\* 0, 1 and 2 and not the seed slot, and has returned a Vector.
C13_Witness ==
    /\ fn = "rands"
    /\ Len(args) = 3
    /\ SlotsRead(fn, args) = {0, 1, 2}
    /\ IsVec(result)

(***************************************************************************)
(* Claims about rands.                                                     *)
(***************************************************************************)
SeededCall ==
    /\ fn = "rands"
    /\ Len(args) = 4
    /\ \A i \in 1..4 : IsNum(args[i])

\* C6: rands(min, max, count, seed) returns the same sequence whatever rands
\* calls were made before it: its result is the one the call gives from every
\* state of the two generators.
C6_SeededCallIsDeterministic ==
    SeededCall =>
        \A det, less \in 0..(RngModulus - 1) :
            result = builtin_rands(args, det, less).ret

\* C6 witness: rands(0, 3, 2, 1) has returned two different values in a run
\* whose time-seeded generator did not start at 0.
C6_Witness ==
    /\ fn = "rands"
    /\ args = <<Num(0), Num(3), Num(2), Num(1)>>
    /\ Len(result.v) = 2
    /\ result.v[1] # result.v[2]
    /\ lessdeterministic_rng # 0

\* A step in which rands is called with three or four Numbers.
ValidRandsCall ==
    /\ fn = "none"
    /\ fn' = "rands"
    /\ Len(args') \in {3, 4}
    /\ \A i \in 1..Len(args') : IsNum(args'[i])

\* max(0, trunc(count)) of a finite count.
ClampedCount(c) == IF c.n <= 0 THEN 0 ELSE c.n \div c.d

\* The argument list with its first two arguments exchanged.
BoundsExchanged(a) == [a EXCEPT ![1] = a[2], ![2] = a[1]]

\* C11: a rands call with valid arguments returns a Vector of exactly
\* max(0, trunc(count)) elements; when min == max every element is that value
\* and neither generator is advanced (the deterministic one is left as the
\* seed puts it, or as it was without a seed); when min > max the bounds are
\* swapped: every element lies between them and the result is that of the
\* call with the bounds in order.
C11_CountCopiesAndSwap ==
    [][ValidRandsCall =>
          LET lo == IF DLess(args'[2], args'[1]) THEN args'[2] ELSE args'[1]
              hi == IF DLess(args'[2], args'[1]) THEN args'[1] ELSE args'[2]
          IN  /\ IsVec(result')
              /\ Len(result'.v) = ClampedCount(args'[3])
              /\ DEq(args'[1], args'[2]) =>
                    /\ \A i \in 1..Len(result'.v) : result'.v[i] = args'[1]
                    /\ lessdeterministic_rng' = lessdeterministic_rng
                    /\ deterministic_rng' =
                          IF Len(args') = 4
                          THEN SeedRng(deterministic_rng, ToUnsigned(args'[4]))
                          ELSE deterministic_rng
              /\ \A i \in 1..Len(result'.v) :
                    DLe(lo, result'.v[i]) /\ DLe(result'.v[i], hi)
              /\ result' = builtin_rands(BoundsExchanged(args'), deterministic_rng,
                                         lessdeterministic_rng).ret
    ]_vars

\* C11 witness: rands(3, 0, 2.5, 1), with its bounds inverted, has returned
\* two values.
C11_Witness ==
    /\ fn = "rands"
    /\ args = <<Num(3), Num(0), Fin(0, 5, 2), Num(1)>>
    /\ IsVec(result)
    /\ Len(result.v) = 2

\* A step in which rands is called and returns Undefined.
RejectedRandsCall ==
    /\ fn = "none"
    /\ fn' = "rands"
    /\ result' = Undef

\* C14: a rands call that returns Undefined leaves both generators as they
\* were, so the calls that follow see the state they would have seen without
\* it.
C14_RejectedCallKeepsGenerators ==
    [][RejectedRandsCall =>
          /\ deterministic_rng' = deterministic_rng
          /\ lessdeterministic_rng' = lessdeterministic_rng
          /\ ~(Len(args') \in {3, 4} /\ \A i \in 1..Len(args') : IsNum(args'[i]))
    ]_vars

\* C14 witness: rands(0, 1, 2, "x") has returned Undefined after an earlier
\* seeded call had moved the deterministic generator off its initial state.
C14_Witness ==
    /\ fn = "rands"
    /\ args = <<Num(0), Num(1), Num(2), Str(<<120>>)>>
    /\ result = Undef
    /\ deterministic_rng # DefaultSeed

RECURSIVE Advance(_, _)
\* The generator state after k draws.
Advance(rng, k) == IF k = 0 THEN rng ELSE Advance(StepRng(rng), k - 1)

\* The number of values a valid call draws: none when min == max.
Draws(a) == IF DEq(a[1], a[2]) THEN 0 ELSE ClampedCount(a[3])

\* C15: in every rands step, a valid call with a seed leaves the time-seeded
\* generator as it was and leaves the deterministic one at the seed's state
\* advanced by the values drawn; a valid call without a seed leaves the
\* deterministic generator as it was and advances the time-seeded one by the
\* values drawn, from the state it had (it is never reseeded).
C15_GeneratorsAreIndependent ==
    [][ValidRandsCall =>
          IF Len(args') = 4
          THEN /\ lessdeterministic_rng' = lessdeterministic_rng
               /\ deterministic_rng' =
                     Advance(ToUnsigned(args'[4]) % RngModulus, Draws(args'))
          ELSE /\ deterministic_rng' = deterministic_rng
               /\ lessdeterministic_rng' =
                     Advance(lessdeterministic_rng, Draws(args'))
    ]_vars

\* C15 witness: rands(0, 3, 2) has drawn two different values from the
\* time-seeded generator while the deterministic one stays where an earlier
\* seeded call left it, off its initial state.
C15_Witness ==
    /\ fn = "rands"
    /\ args = <<Num(0), Num(3), Num(2)>>
    /\ Len(result.v) = 2
    /\ result.v[1] # result.v[2]
    /\ deterministic_rng # DefaultSeed

====
